---- MODULE Spec2Model ----
(***************************************************************************)
(* Interview practice system: the server-side voice interview session      *)
(* manager (VoiceInterviewService), the analytics report it requests at    *)
(* the end of an interview (PerformanceAnalysisOrchestrator), and the      *)
(* question-count formula of the client-side simulator                     *)
(* (AIInterviewSimulator.calculateMaxQuestions).                           *)
(*                                                                         *)
(* One entry of the activeInterviews map is modelled: operations on        *)
(* different session ids do not touch each other's entries.                *)
(***************************************************************************)
EXTENDS Integers, Sequences, FiniteSets, TLC

VARIABLES
    session,      \* activeInterviews.get(sessionId), NoSession when absent
    now,          \* Date.now(), in minutes
    lastResult,   \* what the most recent operation returned or threw
    pauseSnap,    \* history: the session as it was just before the latest pause
    fnPc,         \* calculateMaxQuestions harness: "input", "single", "doubled"
    fnConfig,     \* calculateMaxQuestions harness: this.config
    fnResult,     \* calculateMaxQuestions harness: result for fnConfig
    fnDoubled,    \* calculateMaxQuestions harness: result for twice the duration
    sessionMemory,  \* AgenticOrchestrator.sessionMemory
    orchStats,      \* history: generateQuestion calls, in all and per session key
    orchLast,       \* what the most recent AgenticOrchestrator.generateQuestion did
    analysisCache,  \* PerformanceAnalysisOrchestrator.analysisCache
    analysisCalls,  \* history: generateComprehensiveAnalytics calls so far
    analysisLast,   \* what the most recent generateComprehensiveAnalytics did
    agentMemory,    \* BaseAgent.memory
    agentLast,      \* what the most recent BaseAgent.execute did
    normPc,         \* parseWithValidation harness: "idle", "input", "done"
    normInput,      \* parseWithValidation harness: response and schemaType
    normResult,     \* parseWithValidation harness: the value returned
    simulator,      \* the fields of one AIInterviewSimulator
    simCalls,       \* getNextQuestion calls waiting at APIService.generateQuestion
    simPrefetches,  \* preGenerateNextQuestion requests not yet settled
    simLast,        \* what the most recent AIInterviewSimulator method did
    pausedTime,     \* history: minutes the session has spent in status paused
    analyzing,      \* processVoiceResponse calls waiting at llm.analyzeResponse
    generating,     \* generateNextQuestion calls waiting at llm.generateQuestion
    orchCalls,      \* generateQuestion calls of the orchestrator that are under way
    topicInvocations  \* history: topicAnalysisAgent.execute calls so far

vars == <<session, now, lastResult, pauseSnap, fnPc, fnConfig, fnResult, fnDoubled,
          sessionMemory, orchStats, orchLast,
          analysisCache, analysisCalls, analysisLast,
          agentMemory, agentLast, normPc, normInput, normResult,
          simulator, simCalls, simPrefetches, simLast,
          pausedTime, analyzing, generating, orchCalls, topicInvocations>>

sessionVars == <<session, now, lastResult, pauseSnap>>
fnVars == <<fnPc, fnConfig, fnResult, fnDoubled>>
orchVars == <<sessionMemory, orchStats, orchLast>>
analysisVars == <<analysisCache, analysisCalls, analysisLast>>
agentVars == <<agentMemory, agentLast>>
normVars == <<normPc, normInput, normResult>>
simVars == <<simulator, simCalls, simPrefetches, simLast>>
overlapVars == <<analyzing, generating>>
raceVars == <<orchCalls, topicInvocations>>

\* A component that a specification does not exercise stays as constructed.
OrchIdle ==
    /\ sessionMemory = << >>
    /\ orchStats = [total |-> 0, perKey |-> << >>]
    /\ orchLast = [op |-> "none"]

AnalysisIdle ==
    /\ analysisCache = << >>
    /\ analysisCalls = 0
    /\ analysisLast = [op |-> "none"]

AgentIdle ==
    /\ agentMemory = << >>
    /\ agentLast = [op |-> "none"]

NormIdle ==
    /\ normPc = "idle"
    /\ normInput = [text |-> << >>, schemaType |-> "none"]
    /\ normResult = [op |-> "none"]

\* No simulator has been constructed.
SimIdle ==
    /\ simulator = [config |-> "none"]
    /\ simCalls = << >>
    /\ simPrefetches = << >>
    /\ simLast = [op |-> "none"]

\* No request is waiting at an await.
OverlapIdle == analyzing = 0 /\ generating = 0
RaceIdle == orchCalls = << >> /\ topicInvocations = 0

extraVars == <<simVars, pausedTime, overlapVars, raceVars>>
ExtraIdle == SimIdle /\ pausedTime = 0 /\ OverlapIdle /\ RaceIdle

\* What the methods of the simulator leave alone.
serverVars == <<sessionVars, fnVars, orchVars, analysisVars, agentVars, normVars,
                pausedTime, overlapVars, raceVars>>

moreVars == <<analysisVars, agentVars, normVars, extraVars>>
MoreIdle == AnalysisIdle /\ AgentIdle /\ NormIdle /\ ExtraIdle

restVars == <<orchVars, moreVars>>
RestIdle == OrchIdle /\ MoreIdle

----------------------------------------------------------------------------
(* Bounds of the model *)

MaxDuration == 150     \* durations 1..MaxDuration feed calculateMaxQuestions
MaxResponses == 4      \* responses accepted per session
MaxNow == 45           \* the clock stops here
TickStep == 30         \* minutes that pass between two observations of the clock

----------------------------------------------------------------------------
(* Data model *)

ExperienceLevels == {"fresher", "junior", "mid-level", "senior", "lead-manager"}
Styles == {"technical", "hr", "behavioral", "salary-negotiation", "case-study"}
Statuses == {"waiting", "active", "paused", "completed"}

InterviewConfig(d, level, style) ==
    [duration |-> d, experienceLevel |-> level, style |-> style]

\* Configurations of the modelled sessions.
SessionConfigs ==
    { InterviewConfig(30, "junior", "technical"),
      InterviewConfig(60, "fresher", "hr") }

\* Texts the language model may hand back as a question, and transcriptions
\* the participant may submit.
QuestionTexts == {"qA", "qB"}
Transcriptions == {"t1"}

Min(a, b) == IF a < b THEN a ELSE b
Max(a, b) == IF a > b THEN a ELSE b

----------------------------------------------------------------------------
(* AIInterviewSimulator.calculateMaxQuestions                               *)
(* timePerQuestion takes half-minute values, so it is kept doubled:         *)
(* floor(duration / t) = (2 * duration) \div (2 * t).                       *)

LevelTimePerQuestion2(level) ==
    CASE level = "fresher" -> 8
      [] level = "junior" -> 10
      [] level = "mid-level" -> 12
      [] level = "senior" -> 14
      [] level = "lead-manager" -> 16
      [] OTHER -> 10

StyleAdjust2(style) ==
    CASE style = "technical" -> 2
      [] style = "case-study" -> 4
      [] style = "behavioral" -> 1
      [] style = "hr" -> -1
      [] style = "salary-negotiation" -> -2
      [] OTHER -> 0

\* Variant: the upper bound lacks the cap at 15.
calculateMaxQuestions_Uncapped(config) ==
    LET timePerQuestion2 ==
            LevelTimePerQuestion2(config.experienceLevel) + StyleAdjust2(config.style)
        calculatedQuestions == (2 * config.duration) \div timePerQuestion2
        minQuestions == 3
        maxQuestions == Max(8, config.duration \div 3)
    IN  Max(minQuestions, Min(maxQuestions, calculatedQuestions))

\* Variant: the operands of the division are swapped.
calculateMaxQuestions_Swapped(config) ==
    LET timePerQuestion2 ==
            LevelTimePerQuestion2(config.experienceLevel) + StyleAdjust2(config.style)
        calculatedQuestions == timePerQuestion2 \div (2 * config.duration)
        minQuestions == 3
        maxQuestions == Min(15, Max(8, config.duration \div 3))
    IN  Max(minQuestions, Min(maxQuestions, calculatedQuestions))

calculateMaxQuestions(config) ==
    LET timePerQuestion2 ==
            LevelTimePerQuestion2(config.experienceLevel) + StyleAdjust2(config.style)
        calculatedQuestions == (2 * config.duration) \div timePerQuestion2
        minQuestions == 3
        maxQuestions == Min(15, Max(8, config.duration \div 3))
    IN  Max(minQuestions, Min(maxQuestions, calculatedQuestions))

----------------------------------------------------------------------------
(* VoiceInterviewService: the session record and the helpers               *)

\* activeInterviews has no entry for the session id
NoSession == [status |-> "absent"]
NoTime == -1                 \* a date field that is not set
Undefined == "undefined"     \* session.questions[-1]
Null == "null"
NaN == -1       \* 0 / 0: no number of [0,100], every comparison with it is false

\* Math.floor(undefined / 15) is NaN, and so are Math.max and Math.min of it.
calculateTotalQuestions(duration) ==
    IF duration = NaN THEN NaN ELSE Min(Max(3, duration \div 15), 8)

\* timeElapsed and maxDuration are milliseconds; the clock counts minutes.
shouldContinueInterview(s, t) ==
    LET maxQuestions == calculateTotalQuestions(s.config.duration)
        timeElapsed == (t - s.startTime) * 60000
        maxDuration == s.config.duration * 60 * 1000
    IN  s.currentQuestionIndex < maxQuestions /\ timeElapsed < maxDuration

\* The interviewSession object literal of startVoiceInterview.
NewSession(config, t) ==
    [ config |-> config,
      startTime |-> t,
      currentQuestionIndex |-> 0,
      questions |-> << >>,
      responses |-> << >>,
      status |-> "waiting",
      pausedAt |-> NoTime,
      pauseDuration |-> 0,
      endTime |-> NoTime ]

\* Variant: the question is pushed and the index is left as it was.
StoreQuestion_PushOnly(s, questionText) ==
    [s EXCEPT !.questions = Append(@, questionText)]

\* generateNextQuestion, when llm.generateQuestion resolved with questionText.
StoreQuestion(s, questionText) ==
    [s EXCEPT !.questions = Append(@, questionText),
              !.currentQuestionIndex = @ + 1]

\* session.questions[session.currentQuestionIndex - 1]; sequences here start at 1.
currentQuestionOf(s) ==
    IF s.currentQuestionIndex \in DOMAIN s.questions
    THEN s.questions[s.currentQuestionIndex]
    ELSE Undefined

\* processVoiceResponse: the response object and its push.
StoreResponse(s, transcription, t) ==
    [s EXCEPT !.responses = Append(@,
        [ questionId |-> s.currentQuestionIndex,
          question |-> currentQuestionOf(s),
          response |-> transcription,
          timestamp |-> t,
          duration |-> t - s.startTime ])]

PausedSession(s, t) ==
    [s EXCEPT !.status = "paused", !.pausedAt = t]

\* Variant: the status is set to active only when no pause is pending.
ResumedSession_Misplaced(s, t) ==
    IF s.pausedAt # NoTime
    THEN [s EXCEPT !.pauseDuration = @ + (t - s.pausedAt),
                   !.pausedAt = NoTime]
    ELSE [s EXCEPT !.status = "active"]

ResumedSession(s, t) ==
    IF s.pausedAt # NoTime
    THEN [s EXCEPT !.status = "active",
                   !.pauseDuration = @ + (t - s.pausedAt),
                   !.pausedAt = NoTime]
    ELSE [s EXCEPT !.status = "active"]

EndedSession(s, t) ==
    [s EXCEPT !.status = "completed", !.endTime = t]

----------------------------------------------------------------------------
(* PerformanceAnalysisOrchestrator: the report built at the end            *)

\* One entry per response; agentFailed is the set of positions whose
\* ResponseAnalysis agent call threw and got the fallback analysis
\* (endInterview tries none of them failing and all of them failing).
analyzeIndividualResponses(responses, agentFailed) ==
    [ i \in 1..Len(responses) |->
        [ questionId |-> responses[i].questionId,
          question |-> responses[i].question,
          response |-> responses[i].response,
          fallback |-> (i \in agentFailed) ] ]

synthesizeFinalAnalytics(responseAnalyses) ==
    [ questionReviews |->
        [ i \in 1..Len(responseAnalyses) |->
            [ questionId |-> responseAnalyses[i].questionId,
              question |-> responseAnalyses[i].question,
              response |-> responseAnalyses[i].response ] ],
      totalResponses |-> Len(responseAnalyses) ]

generateComprehensiveAnalytics(responses, agentFailed) ==
    synthesizeFinalAnalytics(analyzeIndividualResponses(responses, agentFailed))

----------------------------------------------------------------------------
(* VoiceInterviewService: the operations                                   *)

\* What an operation handed back to its caller.  ok = FALSE is a thrown Error
\* whose message is in error.  The real-time analysis of a response is returned
\* and not stored, so it is left out.
Result(op) ==
    [ op |-> op, ok |-> TRUE, error |-> Null,
      isComplete |-> FALSE, nextQuestion |-> Null,
      current |-> 0, total |-> 0, status |-> Null,
      questionReviews |-> << >> ]

Thrown(op, message) ==
    [Result(op) EXCEPT !.ok = FALSE, !.error = message]

Throw == "throw"   \* an awaited collaborator call that rejects

\* startVoiceInterview for one config: roomCreated is createInterviewRoom
\* resolving, question what llm.generateQuestion settles with.
startVoiceInterviewCall(config, roomCreated, question) ==
    IF ~roomCreated
    THEN /\ session' = session
         /\ lastResult' = Thrown("startVoiceInterview", "Failed to start voice interview")
    ELSE IF question = Throw
    THEN /\ session' = NewSession(config, now)
         /\ lastResult' = Thrown("startVoiceInterview", "Failed to start voice interview")
    ELSE /\ session' = StoreQuestion(NewSession(config, now), question)
         /\ lastResult' = [Result("startVoiceInterview") EXCEPT
                              !.nextQuestion = question,
                              !.current = 1,
                              !.total = calculateTotalQuestions(config.duration)]

startVoiceInterview ==
    /\ session = NoSession
    /\ \E config \in SessionConfigs, roomCreated \in BOOLEAN,
          question \in QuestionTexts \cup {Throw} :
          startVoiceInterviewCall(config, roomCreated, question)
    /\ pauseSnap' = NoSession
    /\ UNCHANGED <<now, fnVars, restVars>>

processVoiceResponse ==
    /\ IF session = NoSession
       THEN /\ session' = session
            /\ lastResult' = Thrown("processVoiceResponse", "Interview session not found")
       ELSE /\ Len(session.responses) < MaxResponses
            /\ \E transcription \in Transcriptions,
                  question \in QuestionTexts \cup {Throw} :
                 LET stored == StoreResponse(session, transcription, now)
                     shouldContinue == shouldContinueInterview(stored, now)
                     after ==
                         IF shouldContinue
                         THEN IF question = Throw THEN stored
                                                  ELSE StoreQuestion(stored, question)
                         ELSE [stored EXCEPT !.status = "completed"]
                 IN  /\ session' = after
                     /\ lastResult' = [Result("processVoiceResponse") EXCEPT
                            !.nextQuestion =
                                IF shouldContinue /\ question # Throw THEN question ELSE Null,
                            !.isComplete = ~shouldContinue,
                            !.current = after.currentQuestionIndex,
                            !.total = calculateTotalQuestions(after.config.duration),
                            !.status = after.status]
    /\ pauseSnap' = NoSession
    /\ UNCHANGED <<now, fnVars, restVars>>

pauseInterview ==
    /\ IF session = NoSession
       THEN /\ session' = session
            /\ lastResult' = Thrown("pauseInterview", "Interview session not found")
       ELSE /\ session' = PausedSession(session, now)
            /\ lastResult' = [Result("pauseInterview") EXCEPT !.status = "paused"]
    /\ pauseSnap' = session
    /\ UNCHANGED <<now, fnVars, restVars>>

resumeInterview ==
    /\ IF session = NoSession
       THEN /\ session' = session
            /\ lastResult' = Thrown("resumeInterview", "Interview session not found")
       ELSE /\ session' = ResumedSession(session, now)
            /\ lastResult' = [Result("resumeInterview") EXCEPT !.status = "active"]
    /\ pauseSnap' = IF lastResult.op = "pauseInterview" THEN pauseSnap ELSE NoSession
    /\ UNCHANGED <<now, fnVars, restVars>>

endInterview ==
    /\ IF session = NoSession
       THEN /\ session' = session
            /\ lastResult' = Thrown("endInterview", "Interview session not found")
       ELSE \E analyticsReturned \in BOOLEAN,
               agentFailed \in {{}, 1..Len(session.responses)} :
              LET ended == EndedSession(session, now)
                  analytics == generateComprehensiveAnalytics(ended.responses, agentFailed)
              IN  /\ session' = ended
                  /\ lastResult' =
                        IF analyticsReturned
                        THEN [Result("endInterview") EXCEPT
                                 !.isComplete = TRUE,
                                 !.status = ended.status,
                                 !.current = Len(ended.questions),
                                 !.total = Len(ended.responses),
                                 !.questionReviews = analytics.questionReviews]
                        ELSE Thrown("endInterview", "Failed to end interview")
    /\ pauseSnap' = NoSession
    /\ UNCHANGED <<now, fnVars, restVars>>

getSessionStatus ==
    /\ lastResult' =
          IF session = NoSession
          THEN [Result("getSessionStatus") EXCEPT !.status = "not found"]
          ELSE [Result("getSessionStatus") EXCEPT
                   !.status = session.status,
                   !.current = session.currentQuestionIndex,
                   !.total = calculateTotalQuestions(session.config.duration)]
    /\ pauseSnap' = NoSession
    /\ UNCHANGED <<session, now, fnVars, restVars>>

reconnectToSession ==
    /\ IF session = NoSession
       THEN lastResult' = Thrown("reconnectToSession", "Interview session not found")
       ELSE \E tokenIssued \in BOOLEAN :
              lastResult' =
                 IF tokenIssued
                 THEN [Result("reconnectToSession") EXCEPT
                         !.nextQuestion = currentQuestionOf(session),
                         !.current = session.currentQuestionIndex,
                         !.total = calculateTotalQuestions(session.config.duration)]
                 ELSE Thrown("reconnectToSession", "Failed to reconnect to session")
    /\ pauseSnap' = NoSession
    /\ UNCHANGED <<session, now, fnVars, restVars>>

\* Time passes between two requests.
Tick ==
    /\ now + TickStep <= MaxNow
    /\ now' = now + TickStep
    /\ UNCHANGED <<session, lastResult, pauseSnap, fnVars, restVars>>

Init ==
    /\ session = NoSession
    /\ now = 0
    /\ lastResult = Result("none")
    /\ pauseSnap = NoSession
    /\ fnPc = "idle"
    /\ fnConfig = InterviewConfig(30, "junior", "technical")
    /\ fnResult = 0
    /\ fnDoubled = 0
    /\ RestIdle

Next ==
    \/ startVoiceInterview
    \/ processVoiceResponse
    \/ pauseInterview
    \/ resumeInterview
    \/ endInterview
    \/ getSessionStatus
    \/ reconnectToSession
    \/ Tick

Spec == Init /\ [][Next]_vars

----------------------------------------------------------------------------
(* calculateMaxQuestions applied to every configuration                    *)

InitMaxQuestions ==
    /\ session = NoSession
    /\ now = 0
    /\ lastResult = Result("none")
    /\ pauseSnap = NoSession
    /\ fnPc = "input"
    /\ fnConfig \in { InterviewConfig(d, level, style) :
                        d \in 1..MaxDuration, level \in ExperienceLevels, style \in Styles }
    /\ fnResult = 0
    /\ fnDoubled = 0
    /\ RestIdle

ComputeMaxQuestions ==
    /\ fnPc = "input"
    /\ fnResult' = calculateMaxQuestions(fnConfig)
    /\ fnPc' = "single"
    /\ UNCHANGED <<fnConfig, fnDoubled, sessionVars, restVars>>

ComputeMaxQuestionsDoubled ==
    /\ fnPc = "single"
    /\ fnDoubled' = calculateMaxQuestions([fnConfig EXCEPT !.duration = 2 * @])
    /\ fnPc' = "doubled"
    /\ UNCHANGED <<fnConfig, fnResult, sessionVars, restVars>>

NextMaxQuestions ==
    \/ ComputeMaxQuestions
    \/ ComputeMaxQuestionsDoubled

SpecMaxQuestions == InitMaxQuestions /\ [][NextMaxQuestions]_vars

\* The session manager and the calculateMaxQuestions harness as constructed.
SessionIdle ==
    /\ session = NoSession
    /\ now = 0
    /\ lastResult = Result("none")
    /\ pauseSnap = NoSession

FnIdle ==
    /\ fnPc = "idle"
    /\ fnConfig = InterviewConfig(30, "junior", "technical")
    /\ fnResult = 0
    /\ fnDoubled = 0

----------------------------------------------------------------------------
(* Properties of the session manager                                       *)

\* A step taken by the named operation: the operations leave the clock alone
\* and record themselves in lastResult; Tick does the opposite.
IsStep(op) == now' = now /\ lastResult'.op = op

\* The time limit of the session has not been reached at time t.
TimeLeft(s, t) == t - s.startTime < s.config.duration

AllowedTransitions ==
    { <<"waiting", "active">>, <<"active", "paused">>, <<"paused", "active">> }
      \cup { <<st, "completed">> : st \in Statuses \ {"completed"} }

C2_SubmitOnCompletedFails ==
    [][ (session.status = "completed" /\ IsStep("processVoiceResponse"))
            => /\ ~lastResult'.ok
               /\ session'.responses = session.responses
               /\ session'.questions = session.questions
               /\ session'.currentQuestionIndex = session.currentQuestionIndex ]_vars

\* C3: submitResponse on a waiting or paused session is rejected with an
\* error and appends no response.
C3_SubmitRequiresActive ==
    [][ (session.status \in {"waiting", "paused"} /\ IsStep("processVoiceResponse"))
            => /\ ~lastResult'.ok
               /\ session'.responses = session.responses ]_vars

\* C4: in every state of a session,
\* responses.length <= questions.length <= currentQuestionIndex.
C4_LengthInvariant ==
    session # NoSession =>
        /\ Len(session.responses) <= Len(session.questions)
        /\ Len(session.questions) <= session.currentQuestionIndex

\* C5: pause of an active session followed by resume leaves the status active
\* and currentQuestionIndex, questions and responses as they were before the
\* pause.
C5_PauseResumeRestores ==
    (lastResult.op = "resumeInterview" /\ pauseSnap.status = "active")
        => /\ session.status = "active"
           /\ session.currentQuestionIndex = pauseSnap.currentQuestionIndex
           /\ session.questions = pauseSnap.questions
           /\ session.responses = pauseSnap.responses

\* An active session that holds answers was paused and has just been resumed.
C5_Witness ==
    /\ lastResult.op = "resumeInterview"
    /\ lastResult.ok
    /\ pauseSnap.status = "active"
    /\ Len(pauseSnap.responses) >= 2
    /\ Len(pauseSnap.questions) >= 3

\* C6: pause of a session that is not active, and resume of a session that is
\* not paused, fail with an error and leave the session unchanged.
C6_InvalidPauseResumeFails ==
    [][ /\ (session # NoSession /\ session.status # "active" /\ IsStep("pauseInterview"))
            => (~lastResult'.ok /\ session' = session)
        /\ (session # NoSession /\ session.status # "paused" /\ IsStep("resumeInterview"))
            => (~lastResult'.ok /\ session' = session) ]_vars

\* Every answer so far was followed by its next question.
NormalFlow(s) == s.currentQuestionIndex = Len(s.responses) + 1

\* The session was completed by the answer to its last question, and nothing
\* was submitted or ended since.
CompletedByLastAnswer(s) ==
    /\ s.status = "completed"
    /\ s.endTime = NoTime
    /\ s.currentQuestionIndex = Len(s.responses)

\* C7: with N = maxQuestions(config) and time left, start yields exactly one
\* question, the status becomes completed exactly with the N-th response, and
\* endInterview then returns N questionReviews.
C7_EndToEnd ==
    [][ /\ (IsStep("startVoiceInterview") /\ lastResult'.ok)
            => Len(session'.questions) = 1
        /\ ( /\ IsStep("processVoiceResponse")
             /\ session.status \in Statuses \ {"completed"}
             /\ NormalFlow(session)
             /\ TimeLeft(session, now) )
            => ( session'.status = "completed"
                   <=> Len(session'.responses) = calculateMaxQuestions(session.config) )
        /\ ( /\ IsStep("endInterview")
             /\ lastResult'.ok
             /\ CompletedByLastAnswer(session)
             /\ TimeLeft(session, now) )
            => Len(lastResult'.questionReviews) = calculateMaxQuestions(session.config) ]_vars

\* C10: the limit submitResponse compares currentQuestionIndex against, and
\* reports as the progress total, is maxQuestions(duration, experienceLevel,
\* style); the interview continues exactly when the index is below it and
\* time is left, and is completed otherwise.
C10_LimitIsMaxQuestions ==
    [][ (session # NoSession /\ IsStep("processVoiceResponse"))
            => LET limit == calculateMaxQuestions(session.config)
                   continues == /\ session.currentQuestionIndex < limit
                                /\ TimeLeft(session, now)
               IN  /\ lastResult'.total = limit
                   /\ lastResult'.isComplete = ~continues
                   /\ ~continues => session'.status = "completed" ]_vars

----------------------------------------------------------------------------
(* Properties of calculateMaxQuestions                                     *)

Clamp(x, lo, hi) == IF x < lo THEN lo ELSE IF x > hi THEN hi ELSE x

\* Twice the minutes per question, as the formula states them: 4/5/6/7/8 by
\* level, +1 technical, +2 case-study, +0.5 behavioral, -0.5 hr, -1 salary.
StatedTimePerQuestion2(level, style) ==
    LET base == [l \in ExperienceLevels |->
                    IF l = "fresher" THEN 4
                    ELSE IF l = "junior" THEN 5
                    ELSE IF l = "mid-level" THEN 6
                    ELSE IF l = "senior" THEN 7
                    ELSE 8]
        adjust2 == [st \in Styles |->
                    IF st = "technical" THEN 2
                    ELSE IF st = "case-study" THEN 4
                    ELSE IF st = "behavioral" THEN 1
                    ELSE IF st = "hr" THEN -1
                    ELSE -2]
    IN  2 * base[level] + adjust2[style]

StatedMaxQuestions(config) ==
    Clamp((2 * config.duration) \div
              StatedTimePerQuestion2(config.experienceLevel, config.style),
          3, Min(15, Max(8, config.duration \div 3)))

\* C8: maxQuestions is floor(duration / timePerQuestion) clamped to
\* [3, min(15, max(8, floor(duration / 3)))], hence an integer in [3, 15].
C8_MaxQuestionsFormula ==
    /\ fnPc \in {"single", "doubled"} =>
          /\ fnResult = StatedMaxQuestions(fnConfig)
          /\ fnResult \in 3..15
    /\ fnPc = "doubled" =>
          /\ fnDoubled = StatedMaxQuestions([fnConfig EXCEPT !.duration = 2 * @])
          /\ fnDoubled \in 3..15

\* The quotient exceeded the upper bound and was cut down to 15.
C8_Witness ==
    /\ fnPc = "single"
    /\ fnResult = 15
    /\ (2 * fnConfig.duration) \div
          StatedTimePerQuestion2(fnConfig.experienceLevel, fnConfig.style) > 15

\* C9: doubling the duration never decreases maxQuestions.
C9_DoublingMonotone ==
    fnPc = "doubled" => fnDoubled >= fnResult

\* Doubling the duration raised the number of questions.
C9_Witness ==
    /\ fnPc = "doubled"
    /\ fnDoubled > fnResult
    /\ fnResult > 3

----------------------------------------------------------------------------
(* Reconnect                                                               *)

\* C11: reconnect on a completed session fails with an error and issues no
\* credential; on a session that is not completed it leaves questions,
\* responses, currentQuestionIndex and status unchanged.
C11_ReconnectOnlyBeforeCompleted ==
    [][ IsStep("reconnectToSession") =>
          /\ session.status = "completed" => ~lastResult'.ok
          /\ session.status \in Statuses \ {"completed"} =>
                /\ session'.questions = session.questions
                /\ session'.responses = session.responses
                /\ session'.currentQuestionIndex = session.currentQuestionIndex
                /\ session'.status = session.status ]_vars

----------------------------------------------------------------------------
(* AgenticOrchestrator: the next interview question                        *)

MaxOrchCalls == 3         \* generateQuestion calls in one run
MaxQuestionNumber == 6    \* questionNumber ranges over 1..MaxQuestionNumber
MaxSharedNumber == 2      \* questionNumber of the calls that share session keys

\* Topics, as their characters: getSessionId works on the characters.
Topics == { <<"J", "S">>, <<"j", "s">>, <<"J", " ", " ", "s">> }

OrchConfigs ==
    { [topic |-> t, style |-> st, experienceLevel |-> "junior"] :
        t \in Topics, st \in Styles }

\* What TopicAnalysisAgent.execute resolves with.
TopicAnalysisResults ==
    { [success |-> TRUE, analysis |-> "taA"],
      [success |-> TRUE, analysis |-> "taB"],
      [success |-> FALSE, analysis |-> "taFallback"] }

\* What QuestionGenerationAgent.execute resolves with.
GenerationResults ==
    { [success |-> TRUE, question |-> "qA"],
      [success |-> FALSE, question |-> "agent fallback question"] }

toLowerCase(c) ==
    CASE c = "J" -> "j"
      [] c = "S" -> "s"
      [] c = "I" -> "i"
      [] OTHER -> c

RECURSIVE SkipWhitespace(_)
SkipWhitespace(chars) ==
    IF chars # << >> /\ Head(chars) = " " THEN SkipWhitespace(Tail(chars)) ELSE chars

\* .replace(/\s+/g, '_'): every run of whitespace becomes one underscore.
RECURSIVE ReplaceWhitespace(_)
ReplaceWhitespace(chars) ==
    IF chars = << >> THEN << >>
    ELSE IF Head(chars) = " "
         THEN <<"_">> \o ReplaceWhitespace(SkipWhitespace(chars))
         ELSE <<Head(chars)>> \o ReplaceWhitespace(Tail(chars))

RECURSIVE Join(_)
Join(chars) ==
    IF chars = << >> THEN "" ELSE Head(chars) \o Join(Tail(chars))

\* Style and experienceLevel are lower case and free of whitespace already.
getSessionId(config) ==
    LET replaced == ReplaceWhitespace(config.topic)
        lowered == [i \in 1..Len(replaced) |-> toLowerCase(replaced[i])]
    IN  Join(lowered) \o "_" \o config.style \o "_" \o config.experienceLevel

TopicAnalysisKey(sessionId) == sessionId \o "_topicAnalysis"

\* Map.set
MapSet(m, key, value) ==
    [k \in DOMAIN m \cup {key} |-> IF k = key THEN value ELSE m[k]]

FallbackTable(topic) ==
    [ st \in {"technical", "hr", "behavioral"} |->
        CASE st = "technical" ->
               << "What are the key concepts and best practices in " \o topic \o "?",
                  "How would you approach solving a complex problem using " \o topic \o "?",
                  "Explain the architecture and design patterns you would use for a "
                      \o topic \o " project.",
                  "What are the performance considerations when working with " \o topic \o "?",
                  "How do you ensure code quality and maintainability in " \o topic
                      \o " development?" >>
          [] st = "hr" ->
               << "Why are you passionate about working with " \o topic \o "?",
                  "How do you stay current with developments in " \o topic \o "?",
                  "Describe your experience and growth in " \o topic \o ".",
                  "What challenges have you faced while working with " \o topic \o "?",
                  "How do you see your career developing in the " \o topic \o " field?" >>
          [] OTHER ->
               << "Tell me about a successful project you completed using " \o topic \o ".",
                  "Describe a time when you had to learn " \o topic \o " quickly for a project.",
                  "How did you handle a difficult technical challenge involving " \o topic \o "?",
                  "Tell me about a time you had to collaborate with others on a "
                      \o topic \o " project.",
                  "Describe how you've improved your " \o topic \o " skills over time." >> ]

\* Variant: the index is not clamped to the length of the list.
generateFallbackQuestion_Unclamped(config, questionNumber) ==
    LET fallbacks == FallbackTable(Join(config.topic))
        styleQuestions == IF config.style \in DOMAIN fallbacks
                          THEN fallbacks[config.style] ELSE fallbacks["technical"]
        index == questionNumber - 1
    IN  IF index + 1 \in DOMAIN styleQuestions THEN styleQuestions[index + 1] ELSE Undefined

\* styleQuestions[index] with index counted from 0.
generateFallbackQuestion(config, questionNumber) ==
    LET fallbacks == FallbackTable(Join(config.topic))
        styleQuestions == IF config.style \in DOMAIN fallbacks
                          THEN fallbacks[config.style] ELSE fallbacks["technical"]
        index == Min(questionNumber - 1, Len(styleQuestions) - 1)
    IN  IF index + 1 \in DOMAIN styleQuestions THEN styleQuestions[index + 1] ELSE Undefined

\* An awaited agent call that rejects.
AgentThrew == [threw |-> TRUE]

\* getOrCreateTopicAnalysis: the cached value when there is one, else what the
\* agent call gave; a call that rejects stores nothing.
getOrCreateTopicAnalysis(memory, sessionId, agentOutcome) ==
    IF TopicAnalysisKey(sessionId) \in DOMAIN memory
    THEN [ invoked |-> FALSE,
           value |-> memory[TopicAnalysisKey(sessionId)],
           memory |-> memory ]
    ELSE [ invoked |-> TRUE,
           value |-> agentOutcome,
           memory |-> IF agentOutcome = AgentThrew THEN memory
                      ELSE MapSet(memory, TopicAnalysisKey(sessionId), agentOutcome) ]

\* generateQuestionStreamlined: the agent's question, or the fallback question
\* when the agent call rejects or reports success = false.
generateQuestionStreamlined(config, questionNumber, generationOutcome) ==
    IF generationOutcome = AgentThrew
    THEN [question |-> generateFallbackQuestion(config, questionNumber), fallback |-> TRUE]
    ELSE IF ~generationOutcome.success
         THEN [question |-> generateFallbackQuestion(config, questionNumber), fallback |-> TRUE]
         ELSE [question |-> generationOutcome.question, fallback |-> FALSE]

\* updateSessionMemory(sessionId, {lastQuestion, lastQuestionMetadata, questionNumber})
updateSessionMemory(memory, sessionId, finalQuestion, questionNumber) ==
    MapSet(memory, sessionId,
           [ lastQuestion |-> finalQuestion.question,
             fallback |-> finalQuestion.fallback,
             questionNumber |-> questionNumber ])

CallsOf(sessionId) ==
    IF sessionId \in DOMAIN orchStats.perKey THEN orchStats.perKey[sessionId] ELSE 0

\* One whole call of generateQuestion; calls do not overlap.
generateQuestionCall(config, questionNumber, topicOutcome, generationOutcome) ==
    LET sessionId == getSessionId(config)
        ta == getOrCreateTopicAnalysis(sessionMemory, sessionId, topicOutcome)
        topicThrew == ta.value = AgentThrew
        finalQuestion == generateQuestionStreamlined(config, questionNumber, generationOutcome)
    IN  /\ sessionMemory' =
              IF topicThrew THEN ta.memory
              ELSE updateSessionMemory(ta.memory, sessionId, finalQuestion, questionNumber)
        /\ orchStats' = [ total |-> orchStats.total + 1,
                          perKey |-> MapSet(orchStats.perKey, sessionId,
                                            CallsOf(sessionId) + 1) ]
        /\ orchLast' = [ op |-> "generateQuestion",
                         sessionId |-> sessionId,
                         config |-> config,
                         questionNumber |-> questionNumber,
                         topicInvoked |-> ta.invoked,
                         topicThrew |-> topicThrew,
                         topicAnalysis |-> ta.value,
                         generationThrew |-> ~topicThrew /\ generationOutcome = AgentThrew,
                         returned |-> IF topicThrew
                                      THEN generateFallbackQuestion(config, questionNumber)
                                      ELSE finalQuestion.question ]

\* Calls that share few session keys, so that the cache is exercised.
SharedKeyConfigs == { c \in OrchConfigs : c.style = "technical" }

generateQuestion ==
    /\ orchStats.total < MaxOrchCalls
    /\ \E config \in SharedKeyConfigs, questionNumber \in 1..MaxSharedNumber,
          topicOutcome \in TopicAnalysisResults \cup {AgentThrew},
          generationOutcome \in GenerationResults \cup {AgentThrew} :
          generateQuestionCall(config, questionNumber, topicOutcome, generationOutcome)
    /\ UNCHANGED <<sessionVars, fnVars, moreVars>>

InitOrchestrator ==
    /\ SessionIdle
    /\ FnIdle
    /\ OrchIdle
    /\ MoreIdle

NextOrchestrator == generateQuestion

SpecOrchestrator == InitOrchestrator /\ [][NextOrchestrator]_vars

\* A single call on a fresh orchestrator, over every style and question number.
generateQuestionOnce ==
    /\ orchLast.op = "none"
    /\ \E config \in OrchConfigs, questionNumber \in 1..MaxQuestionNumber,
          topicOutcome \in TopicAnalysisResults \cup {AgentThrew},
          generationOutcome \in GenerationResults \cup {AgentThrew} :
          generateQuestionCall(config, questionNumber, topicOutcome, generationOutcome)
    /\ UNCHANGED <<sessionVars, fnVars, moreVars>>

NextFallbackQuestion == generateQuestionOnce

SpecFallbackQuestion == InitOrchestrator /\ [][NextFallbackQuestion]_vars

\* Every text of the fallback tables, for one topic.
FallbackQuestionTexts(topic) ==
    UNION { { FallbackTable(topic)[st][i] : i \in 1..5 } :
            st \in {"technical", "hr", "behavioral"} }

AgentCallThrew == orchLast.topicThrew \/ orchLast.generationThrew

\* C12: when the TopicAnalysis or the QuestionGeneration agent call throws,
\* generateQuestion raises nothing and returns a non-empty string, one of the
\* fallback questions of the config's topic, for every questionNumber >= 1 and
\* every style.
C12_AgentThrowGivesFallback ==
    orchLast.op = "generateQuestion" /\ AgentCallThrew =>
        /\ orchLast.returned \notin {Throw, Undefined, Null}
        /\ orchLast.returned \in FallbackQuestionTexts(Join(orchLast.config.topic))
        /\ Len(orchLast.returned) > 0

\* A QuestionGeneration throw past the end of the list, in a style without a
\* list of its own.
C12_Witness ==
    /\ orchLast.op = "generateQuestion"
    /\ orchLast.generationThrew
    /\ orchLast.questionNumber = MaxQuestionNumber
    /\ orchLast.config.style = "case-study"
    /\ orchLast.returned =
         "How do you ensure code quality and maintainability in J  s development?"

\* C13: among non-overlapping calls that share a session key only the first
\* invokes the TopicAnalysis agent; every later call reuses the cached
\* TopicAnalysis, and the cached value is never replaced.
C13_TopicAnalysisOnlyByFirstCall ==
    [][ orchStats' # orchStats =>
          LET sessionId == orchLast'.sessionId
              key == TopicAnalysisKey(sessionId)
          IN  CallsOf(sessionId) > 0 =>
                /\ ~orchLast'.topicInvoked
                /\ key \in DOMAIN sessionMemory
                /\ orchLast'.topicAnalysis = sessionMemory[key]
                /\ sessionMemory'[key] = sessionMemory[key] ]_vars

----------------------------------------------------------------------------
(* PerformanceAnalysisOrchestrator: the report, with its scores            *)

MaxAnalysed == 2          \* responses handed to generateComprehensiveAnalytics
MaxAnalysisCalls == 2     \* generateComprehensiveAnalytics calls in one run

\* Response texts, as their characters.
ResponseTexts == { <<"o", "k", ".">>, <<"I", " ", "t", "h", "i", "n", "k">> }

AnalysisConfigs ==
    { [topic |-> <<"J", "S">>, style |-> st, experienceLevel |-> "junior"] :
        st \in {"technical", "hr"} }

\* The responses of a session started at t0, one per minute.
ResponseLists ==
    UNION { { [ i \in 1..n |->
                  [ questionId |-> i,
                    question |-> "q" \o ToString(i),
                    response |-> texts[i],
                    timestamp |-> t0 + i - 1 ] ] :
              texts \in [1..n -> ResponseTexts], t0 \in {100, 200} } :
            n \in 0..MaxAnalysed }

\* String.prototype.includes
Includes(chars, sub) ==
    \E i \in 0..(Len(chars) - Len(sub)) :
        \A j \in 1..Len(sub) : chars[i + j] = sub[j]

LowerCase(chars) == [i \in 1..Len(chars) |-> toLowerCase(chars[i])]

\* clarity and communication are fractions; they are kept in 200ths.
generateFallbackResponseAnalysis(response, config) ==
    LET responseLength == Len(response.response)
    IN  [ responseAnalysis |->
            [ clarity200 |-> Min(95 * 200, Max(60 * 200, 70 * 200 + 4 * responseLength)),
              structure |-> IF Includes(response.response, <<".">>) THEN 75 ELSE 65,
              technical |-> IF config.style = "technical" THEN 70 ELSE 75,
              communication200 |->
                  Min(90 * 200, Max(60 * 200, 65 * 200 + 5 * responseLength)),
              confidence |->
                  IF Includes(LowerCase(response.response),
                              <<"i", " ", "t", "h", "i", "n", "k">>)
                  THEN 65 ELSE 75,
              relevance |-> 75 ],
          feedback |-> "Good response with relevant content. Consider adding more specific examples.",
          score |-> 75 ]

\* What ResponseAnalysisAgent.execute resolves with: an analysis with a score.
AgentScores == {0, 90}

ResponseAnalysisResults ==
    { [ analysis |-> [ responseAnalysis |-> [relevance |-> sc],
                       feedback |-> "agent feedback",
                       score |-> sc ],
        fallback |-> FALSE ] : sc \in AgentScores }

\* One entry of responseAnalyses: the agent's analysis, or the fallback
\* analysis of this response when the agent call threw.
AnalysisEntry(response, config, outcome) ==
    [ questionId |-> response.questionId,
      question |-> response.question,
      response |-> response.response,
      timestamp |-> response.timestamp,
      analysis |-> IF outcome = AgentThrew
                   THEN generateFallbackResponseAnalysis(response, config)
                   ELSE outcome.analysis,
      fallback |-> outcome = AgentThrew ]

\* Variant: the loop stops at the first agent call that throws.
analyzeEachResponse_AbortOnThrow(responses, config, outcomes) ==
    LET failed == { i \in 1..Len(responses) : outcomes[i] = AgentThrew }
        n == IF failed = {} THEN Len(responses)
             ELSE (CHOOSE i \in failed : \A j \in failed : i <= j) - 1
    IN  [ i \in 1..n |-> AnalysisEntry(responses[i], config, outcomes[i]) ]

\* analyzeIndividualResponses with the outcome of every agent call: the loop
\* pushes one entry per response, in order.
analyzeEachResponse(responses, config, outcomes) ==
    [ i \in 1..Len(responses) |-> AnalysisEntry(responses[i], config, outcomes[i]) ]

Absent == -2    \* a field the model output does not have

PerformanceLevels == {"excellent", "good", "fair", "needs_improvement"}

\* Math.round of sum / n for n > 0 and sum >= 0.
RoundedAverage(sum, n) == (2 * sum + n) \div (2 * n)

\* reduce((sum, r) => sum + (r.analysis.score || 70), 0)
RECURSIVE TotalScore(_)
TotalScore(responseAnalyses) ==
    IF responseAnalyses = << >> THEN 0
    ELSE (IF Head(responseAnalyses).analysis.score = 0
          THEN 70 ELSE Head(responseAnalyses).analysis.score)
         + TotalScore(Tail(responseAnalyses))

\* PerformanceAnalysisOrchestrator.generateFallbackOverallAnalysis
generateFallbackOverallAnalysis(responseAnalyses, config) ==
    LET n == Len(responseAnalyses)
        total == TotalScore(responseAnalyses)
    IN  IF n = 0
        THEN [ overallScore |-> NaN, performanceLevel |-> "needs_improvement",
               source |-> "orchestrator fallback" ]
        ELSE [ overallScore |-> RoundedAverage(total, n),
               performanceLevel |-> IF total >= 80 * n THEN "good"
                                    ELSE IF total >= 60 * n THEN "fair"
                                    ELSE "needs_improvement",
               source |-> "orchestrator fallback" ]

\* OverallAnalysisAgent.generateFallbackAnalysis
generateFallbackAnalysis(responseAnalyses) ==
    LET n == Len(responseAnalyses)
        overallScore == IF n = 0 THEN NaN ELSE RoundedAverage(TotalScore(responseAnalyses), n)
    IN  [ overallScore |-> overallScore,
          performanceLevel |-> IF overallScore = NaN THEN "fair"
                               ELSE IF overallScore >= 85 THEN "excellent"
                               ELSE IF overallScore >= 70 THEN "good"
                               ELSE IF overallScore < 60 THEN "needs_improvement"
                               ELSE "fair",
          source |-> "agent fallback" ]

\* What the model answered to the OverallAnalysis prompt: text that holds no
\* JSON, or an object with some of overallScore, performanceLevel and
\* responseAnalysis (its five scores all equal to fieldScore).
OverallModelOutputs ==
    { [parsed |-> FALSE] } \cup
    { [ parsed |-> TRUE, overallScore |-> sc, performanceLevel |-> lv, fieldScore |-> fs ] :
        sc \in {Absent, 0, 65, 90, 150},
        lv \in {"", "fair", "superb"},
        fs \in {Absent, 80, 150} }

\* OverallAnalysisAgent.processResponse, from the parsed object on.
processOverallResponse(output, responseAnalyses) ==
    IF ~output.parsed
    THEN [success |-> FALSE, analysis |-> generateFallbackAnalysis(responseAnalyses)]
    ELSE IF output.overallScore \in {Absent, 0} /\ output.fieldScore = Absent
    THEN [success |-> FALSE, analysis |-> generateFallbackAnalysis(responseAnalyses)]
    ELSE
      LET overallScore ==
              IF output.overallScore = Absent \/ output.overallScore < 0
                                              \/ output.overallScore > 100
              THEN IF output.fieldScore # Absent THEN output.fieldScore ELSE 70
              ELSE output.overallScore
          performanceLevel ==
              IF output.performanceLevel \notin PerformanceLevels
              THEN IF overallScore >= 85 THEN "excellent"
                   ELSE IF overallScore >= 70 THEN "good"
                   ELSE IF overallScore >= 60 THEN "fair"
                   ELSE "needs_improvement"
              ELSE output.performanceLevel
      IN  [ success |-> TRUE,
            analysis |-> [ overallScore |-> overallScore,
                           performanceLevel |-> performanceLevel,
                           source |-> "model output" ] ]

\* PerformanceAnalysisOrchestrator.generateOverallAnalysis
generateOverallAnalysis(responseAnalyses, config, overallOutcome) ==
    IF overallOutcome = AgentThrew
    THEN generateFallbackOverallAnalysis(responseAnalyses, config)
    ELSE processOverallResponse(overallOutcome, responseAnalyses).analysis

\* synthesizeFinalAnalytics with the scores: questionReviews is a map over
\* responseAnalyses.
synthesizeScoredAnalytics(responseAnalyses, overallAnalysis) ==
    [ overallScore |-> overallAnalysis.overallScore,
      performanceLevel |-> overallAnalysis.performanceLevel,
      questionReviews |->
          [ i \in 1..Len(responseAnalyses) |->
              [ questionId |-> responseAnalyses[i].questionId,
                question |-> responseAnalyses[i].question,
                response |-> responseAnalyses[i].response,
                score |-> responseAnalyses[i].analysis.score,
                feedback |-> responseAnalyses[i].analysis.feedback,
                detailedScores |-> responseAnalyses[i].analysis.responseAnalysis ] ],
      totalResponses |-> Len(responseAnalyses) ]

\* PerformanceAnalysisOrchestrator.getSessionId; clock is Date.now().
analysisSessionId(config, responses, clock) ==
    LET timestamp == IF Len(responses) > 0 THEN responses[1].timestamp ELSE clock
        replaced == ReplaceWhitespace(config.topic)
    IN  Join(LowerCase(replaced)) \o "_" \o config.style \o "_" \o ToString(timestamp)

\* One whole call of generateComprehensiveAnalytics.  Every agent call is
\* issued anew: analysisCache is written at the end and read nowhere.  The
\* outer catch (generateFallbackAnalytics) is not reached: each step before it
\* catches its own errors.
generateAnalyticsCall(responses, config, outcomes, overallOutcome, clock) ==
    LET sessionId == analysisSessionId(config, responses, clock)
        responseAnalyses == analyzeEachResponse(responses, config, outcomes)
        overallAnalysis == generateOverallAnalysis(responseAnalyses, config, overallOutcome)
        finalAnalytics == synthesizeScoredAnalytics(responseAnalyses, overallAnalysis)
    IN  /\ analysisCache' = MapSet(analysisCache, sessionId, finalAnalytics)
        /\ analysisCalls' = analysisCalls + 1
        /\ analysisLast' = [ op |-> "generateComprehensiveAnalytics",
                             sessionId |-> sessionId,
                             responses |-> responses,
                             config |-> config,
                             failed |-> { i \in 1..Len(responses) : outcomes[i] = AgentThrew },
                             responseAnalyses |-> responseAnalyses,
                             overallAnalysis |-> overallAnalysis,
                             responseAgentCalls |-> Len(responses),
                             overallAgentCalls |-> 1,
                             returned |-> finalAnalytics ]

\* A single report, over every list of responses and every agent outcome.
generateComprehensiveAnalyticsOnce ==
    /\ analysisLast.op = "none"
    /\ \E responses \in ResponseLists, config \in AnalysisConfigs, clock \in {300, 301},
          overallOutcome \in OverallModelOutputs \cup {AgentThrew} :
          \E outcomes \in [1..Len(responses) -> ResponseAnalysisResults \cup {AgentThrew}] :
             generateAnalyticsCall(responses, config, outcomes, overallOutcome, clock)
    /\ UNCHANGED <<sessionVars, fnVars, orchVars, agentVars, normVars, extraVars>>

InitAnalysis ==
    /\ SessionIdle
    /\ FnIdle
    /\ OrchIdle
    /\ MoreIdle

NextAnalysis == generateComprehensiveAnalyticsOnce

SpecAnalysis == InitAnalysis /\ [][NextAnalysis]_vars

\* Reports asked for again: sessions of one response, whose key is the
\* timestamp of that response.
RepeatedResponseLists == { r \in ResponseLists : Len(r) = 1 }

generateComprehensiveAnalyticsAgain ==
    /\ analysisCalls < MaxAnalysisCalls
    /\ \E responses \in RepeatedResponseLists,
          overallOutcome \in {[parsed |-> FALSE], AgentThrew} :
          \E outcomes \in [1..Len(responses) -> ResponseAnalysisResults \cup {AgentThrew}] :
             generateAnalyticsCall(responses,
                                   [topic |-> <<"J", "S">>, style |-> "technical",
                                    experienceLevel |-> "junior"],
                                   outcomes, overallOutcome, 300)
    /\ UNCHANGED <<sessionVars, fnVars, orchVars, agentVars, normVars, extraVars>>

NextAnalysisCache == generateComprehensiveAnalyticsAgain

SpecAnalysisCache == InitAnalysis /\ [][NextAnalysisCache]_vars

\* C14: over n responses the report holds exactly n per-response analyses and
\* n questionReviews in response order, whatever subset of the ResponseAnalysis
\* agent calls fail; a failed call's entry is that response's fallback analysis
\* and every other response carries its agent's analysis.
C14_OneReviewPerResponse ==
    analysisLast.op = "generateComprehensiveAnalytics" =>
        LET responses == analysisLast.responses
            analyses == analysisLast.responseAnalyses
            reviews == analysisLast.returned.questionReviews
        IN  /\ Len(analyses) = Len(responses)
            /\ Len(reviews) = Len(responses)
            /\ \A i \in 1..Len(responses) :
                  /\ reviews[i].questionId = responses[i].questionId
                  /\ reviews[i].question = responses[i].question
                  /\ reviews[i].response = responses[i].response
                  /\ analyses[i].fallback = (i \in analysisLast.failed)
                  /\ i \in analysisLast.failed =>
                        /\ analyses[i].analysis =
                             generateFallbackResponseAnalysis(responses[i], analysisLast.config)
                        /\ reviews[i].score = 75
                  /\ i \notin analysisLast.failed => reviews[i].score \in AgentScores

\* The first of two agent calls failed and the second response was analysed.
C14_Witness ==
    /\ analysisLast.op = "generateComprehensiveAnalytics"
    /\ Len(analysisLast.responses) = 2
    /\ analysisLast.failed = {1}
    /\ analysisLast.returned.questionReviews[1].score = 75
    /\ analysisLast.returned.questionReviews[2].score = 90

\* C15: a second request for a session key that already has a cached report
\* issues no ResponseAnalysis and no OverallAnalysis agent call and returns
\* the cached report.
C15_SecondRequestReadsCache ==
    [][ analysisCalls' # analysisCalls =>
          LET sessionId == analysisLast'.sessionId
          IN  sessionId \in DOMAIN analysisCache =>
                /\ analysisLast'.responseAgentCalls = 0
                /\ analysisLast'.overallAgentCalls = 0
                /\ analysisLast'.returned = analysisCache[sessionId] ]_vars

\* The stated table of performance levels.
StatedPerformanceLevel(score) ==
    IF score >= 85 THEN "excellent"
    ELSE IF score >= 70 THEN "good"
    ELSE IF score >= 60 THEN "fair"
    ELSE "needs_improvement"

\* C16: every overall analysis, from model output, from the OverallAnalysis
\* agent's fallback or from the orchestrator's fallback, has overallScore in
\* [0,100] and the performanceLevel of the table for that score.
C16_ScoreInRangeAndLevelOfTable ==
    analysisLast.op = "generateComprehensiveAnalytics" =>
        /\ analysisLast.overallAnalysis.overallScore \in 0..100
        /\ analysisLast.overallAnalysis.performanceLevel =
              StatedPerformanceLevel(analysisLast.overallAnalysis.overallScore)

----------------------------------------------------------------------------
(* JSONParsingUtils: text                                                   *)

\* A text is the sequence of its characters.  The member list of an object
\* literal is written as one character, the name of the document it spells
\* (see Documents); "x" is a character of prose.

IsSpace(c) == c \in {" ", "\n"}

RECURSIVE TrimStart(_)
TrimStart(text) ==
    IF text # << >> /\ IsSpace(Head(text)) THEN TrimStart(Tail(text)) ELSE text

RECURSIVE TrimEnd(_)
TrimEnd(text) ==
    IF text # << >> /\ IsSpace(text[Len(text)])
    THEN TrimEnd(SubSeq(text, 1, Len(text) - 1)) ELSE text

Trim(text) == TrimEnd(TrimStart(text))

StartsWith(text, prefix) ==
    Len(text) >= Len(prefix) /\ SubSeq(text, 1, Len(prefix)) = prefix

EndsWith(text, suffix) ==
    Len(text) >= Len(suffix)
    /\ SubSeq(text, Len(text) - Len(suffix) + 1, Len(text)) = suffix

\* substring(n)
Substring(text, n) == SubSeq(text, n + 1, Len(text))

\* substring(0, length - n)
DropLast(text, n) == SubSeq(text, 1, Len(text) - n)

Backtick == "BACKTICK"    \* the character U+0060, which no TLA+ string can hold
Backticks == <<Backtick, Backtick, Backtick>>
JsonTag == <<"j", "s", "o", "n">>

\* replace(/^`+|`+$/g, '')
RECURSIVE StripLeadingBackticks(_)
StripLeadingBackticks(text) ==
    IF text # << >> /\ Head(text) = Backtick THEN StripLeadingBackticks(Tail(text)) ELSE text

RECURSIVE StripTrailingBackticks(_)
StripTrailingBackticks(text) ==
    IF text # << >> /\ text[Len(text)] = Backtick
    THEN StripTrailingBackticks(DropLast(text, 1)) ELSE text

cleanLLMResponse(response) ==
    LET trimmed == Trim(response)
        opened == IF StartsWith(trimmed, Backticks \o JsonTag) THEN Substring(trimmed, 7)
                  ELSE IF StartsWith(trimmed, Backticks) THEN Substring(trimmed, 3)
                  ELSE trimmed
        closed == IF EndsWith(opened, Backticks) THEN DropLast(opened, 3) ELSE opened
        bare == StripTrailingBackticks(StripLeadingBackticks(closed))
        unquoted == IF Len(bare) >= 1
                       /\ \/ Head(bare) = "\"" /\ bare[Len(bare)] = "\""
                          \/ Head(bare) = "'" /\ bare[Len(bare)] = "'"
                    THEN SubSeq(bare, 2, Len(bare) - 1)
                    ELSE bare
    IN  Trim(unquoted)

\* The position of the first "{" and of the last "}", 0 when there is none.
FirstOpen(text) ==
    IF \E i \in 1..Len(text) : text[i] = "{"
    THEN CHOOSE i \in 1..Len(text) :
            text[i] = "{" /\ \A j \in 1..(i - 1) : text[j] # "{"
    ELSE 0

LastClose(text) ==
    IF \E i \in 1..Len(text) : text[i] = "}"
    THEN CHOOSE i \in 1..Len(text) :
            text[i] = "}" /\ \A j \in (i + 1)..Len(text) : text[j] # "}"
    ELSE 0

NotFound == [found |-> FALSE, text |-> << >>]
Found(text) == [found |-> TRUE, text |-> text]

\* text.match(/\{[\s\S]*\}/): from the first "{" to the last "}".  The two
\* other patterns need such a stretch too, so they find nothing when this
\* one does not.
extractJSONFromText(text) ==
    IF FirstOpen(text) > 0 /\ LastClose(text) > FirstOpen(text)
    THEN Found(SubSeq(text, FirstOpen(text), LastClose(text)))
    ELSE NotFound

\* [^{}]* from position j on: the position of the next brace.
RECURSIVE SkipPlain(_, _)
SkipPlain(text, j) ==
    IF j <= Len(text) /\ text[j] \notin {"{", "}"} THEN SkipPlain(text, j + 1) ELSE j

\* (?:\{[^{}]*\}[^{}]*)*\} from position j on: where the match ends, 0 for none.
RECURSIVE GroupEnd(_, _)
GroupEnd(text, j) ==
    IF j > Len(text) THEN 0
    ELSE IF text[j] = "}" THEN j
    ELSE LET k == SkipPlain(text, j + 1)
         IN  IF k <= Len(text) /\ text[k] = "}"
             THEN GroupEnd(text, SkipPlain(text, k + 1))
             ELSE 0

MatchEnd(text, i) ==
    IF text[i] = "{" THEN GroupEnd(text, SkipPlain(text, i + 1)) ELSE 0

\* text.match(/\{[^{}]*(?:\{[^{}]*\}[^{}]*)*\}/g), searching from position p.
RECURSIVE AllBraces(_, _)
AllBraces(text, p) ==
    IF p > Len(text) THEN << >>
    ELSE IF MatchEnd(text, p) > 0
         THEN <<SubSeq(text, p, MatchEnd(text, p))>> \o AllBraces(text, MatchEnd(text, p) + 1)
         ELSE AllBraces(text, p + 1)

\* reduce((a, b) => a.length > b.length ? a : b)
RECURSIVE Largest(_, _)
Largest(a, rest) ==
    IF rest = << >> THEN a
    ELSE Largest(IF Len(a) > Len(Head(rest)) THEN a ELSE Head(rest), Tail(rest))

\* The code-block and prefix patterns need a brace group too, so they find
\* nothing when the first pattern does not.
advancedJSONExtraction(text) ==
    LET allBraces == AllBraces(text, 1)
    IN  IF allBraces # << >> THEN Found(Largest(Head(allBraces), Tail(allBraces)))
        ELSE NotFound

----------------------------------------------------------------------------
(* JSONParsingUtils: values                                                 *)

\* A JSON value: its kind, Number(value) in num, and a label for its content.
Arr(label) == [kind |-> "array", num |-> NaN, text |-> label]
Obj(label) == [kind |-> "object", num |-> NaN, text |-> label]
Str(label, asNumber) == [kind |-> "string", num |-> asNumber, text |-> label]
Num(n) == [kind |-> "number", num |-> n, text |-> ""]

\* typeof
TypeOf(value) == IF value.kind \in {"array", "object", "null"} THEN "object" ELSE value.kind

EmptyObject == << >>

\* The object each member list spells.
Documents ==
    [ topic |->
        [ mainConcepts |-> Arr("closures, scope"),
          skills |-> Arr("debugging"),
          focusAreas |-> Arr("functions"),
          relevanceKeywords |-> Arr("js"),
          complexity |-> Str("medium", NaN) ],
      question |->
        [ question |-> Str("What is a closure?", NaN),
          metadata |-> Obj("difficulty") ],
      response |->
        [ responseAnalysis |-> Obj("clarity"),
          score |-> Num(85),
          feedback |-> Str("Clear answer", NaN),
          strengths |-> Arr("clarity"),
          improvements |-> Arr("examples") ],
      overall |->
        [ overallScore |-> Num(85),
          performanceLevel |-> Str("excellent", NaN),
          strengths |-> Arr("clarity"),
          improvements |-> Arr("examples"),
          responseAnalysis |-> Obj("clarity") ],
      loose |->
        [ score |-> Str("85", 85),
          overallScore |-> Num(150),
          question |-> Num(7) ] ]

RemoveSpaces(text) == SelectSeq(text, LAMBDA c : ~IsSpace(c))

\* JSON.parse: one object literal, with white space anywhere between its
\* tokens; everything else is a SyntaxError.
JSONparse(text) ==
    LET tokens == RemoveSpaces(text)
    IN  IF tokens = <<"{", "}">>
        THEN [ok |-> TRUE, data |-> EmptyObject]
        ELSE IF Len(tokens) = 3 /\ tokens[1] = "{" /\ tokens[3] = "}"
                /\ tokens[2] \in DOMAIN Documents
        THEN [ok |-> TRUE, data |-> Documents[tokens[2]]]
        ELSE [ok |-> FALSE, data |-> EmptyObject]

\* A failed parse carries no data.
ParseResult(success, data, method) ==
    [success |-> success, hasData |-> success, data |-> data, method |-> method]

\* Strategies in order: direct, cleaned, extracted, advanced_extracted.
parseRobustJSON(response) ==
    LET direct == JSONparse(response)
        cleaned == JSONparse(cleanLLMResponse(response))
        extracted == extractJSONFromText(response)
        extractedParse == JSONparse(extracted.text)
        advanced == advancedJSONExtraction(response)
        advancedParse == JSONparse(advanced.text)
    IN  IF direct.ok THEN ParseResult(TRUE, direct.data, "direct")
        ELSE IF cleaned.ok THEN ParseResult(TRUE, cleaned.data, "cleaned")
        ELSE IF extracted.found /\ extractedParse.ok
        THEN ParseResult(TRUE, extractedParse.data, "extracted")
        ELSE IF advanced.found /\ advancedParse.ok
        THEN ParseResult(TRUE, advancedParse.data, "advanced_extracted")
        ELSE ParseResult(FALSE, EmptyObject, "failed")

\* Texts a model may answer with.
ObjectText(document) == <<"{", document, "}">>

PlainTexts == { ObjectText(d) : d \in DOMAIN Documents } \cup { <<"{", "}">> }

\* Nothing, the json tag, another language tag.
FenceTags == { << >>, JsonTag, <<"j", "s">> }

Fence(tag, body) == Backticks \o tag \o <<"\n">> \o body \o <<"\n">> \o Backticks

FencedTexts == { Fence(tag, body) : tag \in FenceTags, body \in PlainTexts }

ProseTexts ==
    { <<"x", " ">> \o body : body \in PlainTexts } \cup
    { ObjectText("question") \o <<" ", "x", " ">> \o ObjectText("loose") }

BrokenTexts == { << >>, <<"x">>, <<"{", "x">>, <<"{", "x", "}">> }

ModelTexts == PlainTexts \cup FencedTexts \cup ProseTexts \cup BrokenTexts

----------------------------------------------------------------------------
(* BaseAgent                                                                *)

\* context objects handed to execute
Contexts ==
    UNION { [keys -> {"a", "b"}] : keys \in SUBSET {"sessionId", "style"} }

\* updateMemory: every entry of context goes into memory.
updateMemory(memory, context) ==
    [ k \in DOMAIN memory \cup DOMAIN context |->
        IF k \in DOMAIN context THEN context[k] ELSE memory[k] ]

\* BaseAgent.processResponse
processResponse(response) ==
    LET parseResult == parseRobustJSON(response)
    IN  IF parseResult.success
        THEN [ success |-> TRUE, data |-> parseResult.data, error |-> Null,
               fallback |-> FALSE, parseMethod |-> parseResult.method ]
        ELSE [ success |-> FALSE, data |-> EmptyObject,
               error |-> "All JSON parsing strategies failed",
               fallback |-> TRUE, parseMethod |-> "failed" ]

NoResult == [success |-> FALSE, none |-> TRUE]

\* BaseAgent.execute: promptThrew is preparePrompt throwing, apiOutcome what
\* llmService.makeAPICall settles with.
execute ==
    \E context \in Contexts, promptThrew \in BOOLEAN,
       apiOutcome \in { [threw |-> FALSE, response |-> t] : t \in ModelTexts }
                      \cup {AgentThrew} :
       /\ agentMemory' = updateMemory(agentMemory, context)
       /\ agentLast' =
            IF promptThrew \/ apiOutcome = AgentThrew
            THEN [ op |-> "execute", promptThrew |-> promptThrew,
                   apiThrew |-> ~promptThrew,
                   threw |-> TRUE, error |-> "Agent failed",
                   result |-> NoResult ]
            ELSE [ op |-> "execute", promptThrew |-> FALSE, apiThrew |-> FALSE,
                   threw |-> FALSE, error |-> Null,
                   result |-> processResponse(apiOutcome.response) ]
       /\ UNCHANGED <<sessionVars, fnVars, orchVars, analysisVars, normVars, extraVars>>

InitAgent ==
    /\ SessionIdle
    /\ FnIdle
    /\ OrchIdle
    /\ MoreIdle

NextAgent == execute

SpecAgent == InitAgent /\ [][NextAgent]_vars

\* C17: when prompt construction or the model call fails, execute raises
\* nothing and returns a result with success = false.
C17_ExecuteReturnsFailure ==
    agentLast.op = "execute" /\ (agentLast.promptThrew \/ agentLast.apiThrew) =>
        /\ ~agentLast.threw
        /\ agentLast.result # NoResult
        /\ agentLast.result.success = FALSE

----------------------------------------------------------------------------
(* JSONParsingUtils: validation                                             *)

\* One entry of a schema.  hasDefault: default is given; ranged: min and max
\* are given.
Rule(field, type, required, hasDefault, default, coerce) ==
    [ field |-> field, type |-> type, required |-> required,
      hasDefault |-> hasDefault, default |-> default,
      ranged |-> FALSE, min |-> 0, max |-> 0, coerce |-> coerce ]

RangedRule(field, required, default, min, max) ==
    [ field |-> field, type |-> "number", required |-> required,
      hasDefault |-> TRUE, default |-> default,
      ranged |-> TRUE, min |-> min, max |-> max, coerce |-> TRUE ]

SchemaTypes == {"topicAnalysis", "questionGeneration", "responseAnalysis",
                "overallAnalysis", "other"}

\* The rules in the order Object.entries lists them; {} for an unknown type.
createSchema(type) ==
    CASE type = "topicAnalysis" ->
           << Rule("mainConcepts", "array", TRUE, TRUE, Arr("Core Concepts"), FALSE),
              Rule("skills", "array", TRUE, TRUE, Arr("General Skills"), FALSE),
              Rule("focusAreas", "array", TRUE, TRUE, Arr("General Knowledge"), FALSE),
              Rule("relevanceKeywords", "array", TRUE, TRUE, Arr("relevant, important"), FALSE),
              Rule("complexity", "string", FALSE, TRUE, Str("medium", NaN), FALSE),
              Rule("technologies", "array", FALSE, TRUE, Arr(""), FALSE),
              Rule("questionCategories", "array", FALSE, TRUE, Arr("general"), FALSE) >>
      [] type = "questionGeneration" ->
           << Rule("question", "string", TRUE, FALSE, Str("", NaN), FALSE),
              Rule("metadata", "object", FALSE, TRUE, Obj(""), FALSE),
              Rule("reasoning", "string", FALSE, TRUE, Str("Generated question", NaN), FALSE) >>
      [] type = "responseAnalysis" ->
           << Rule("responseAnalysis", "object", TRUE, TRUE, Obj(""), FALSE),
              RangedRule("score", TRUE, Num(70), 0, 100),
              Rule("feedback", "string", TRUE, TRUE, Str("Good response", NaN), FALSE),
              Rule("strengths", "array", TRUE, TRUE, Arr("Shows understanding"), FALSE),
              Rule("improvements", "array", TRUE, TRUE, Arr("Add more details"), FALSE) >>
      [] type = "overallAnalysis" ->
           << RangedRule("overallScore", TRUE, Num(70), 0, 100),
              Rule("performanceLevel", "string", TRUE, TRUE, Str("fair", NaN), FALSE),
              Rule("strengths", "array", TRUE, TRUE, Arr("Shows understanding"), FALSE),
              Rule("improvements", "array", TRUE, TRUE, Arr("Practice more"), FALSE),
              Rule("responseAnalysis", "object", TRUE, TRUE, Obj(""), FALSE),
              Rule("executiveSummary", "string", FALSE, TRUE, Str("Performance summary", NaN), FALSE),
              Rule("recommendations", "array", FALSE, TRUE, Arr("Continue practicing"), FALSE),
              Rule("nextSteps", "array", FALSE, TRUE, Arr("Keep improving"), FALSE) >>
      [] OTHER -> << >>

\* coerceType; only numbers are coerced by the schemas.
coerceType(value, targetType) ==
    IF targetType = "number"
    THEN Num(IF value.num = NaN THEN 0 ELSE value.num)
    ELSE value

\* The body of the loop of validateAndNormalize for one rule: the object
\* and the errors after it.
ValidateField(rules, normalized, errors) ==
    LET field == rules.field
        missing == rules.required /\ field \notin DOMAIN normalized
        \* required field
        n1 == IF missing /\ rules.hasDefault
              THEN MapSet(normalized, field, rules.default) ELSE normalized
        e1 == IF missing /\ ~rules.hasDefault
              THEN Append(errors, "Required field '" \o field \o "' is missing")
              ELSE errors
        present == field \in DOMAIN n1
        \* type validation
        mismatch == present /\ TypeOf(n1[field]) # rules.type
        n2 == IF mismatch /\ rules.coerce
              THEN MapSet(n1, field, coerceType(n1[field], rules.type)) ELSE n1
        e2 == IF mismatch /\ ~rules.coerce
              THEN Append(e1, "Field '" \o field \o "' should be " \o rules.type
                              \o ", got " \o TypeOf(n1[field]))
              ELSE e1
        \* range validation for numbers
        clamp == present /\ rules.type = "number" /\ TypeOf(n2[field]) = "number"
                 /\ rules.ranged
        n3 == IF clamp
              THEN MapSet(n2, field, Num(Min(rules.max, Max(rules.min, n2[field].num))))
              ELSE n2
        \* array validation
        notArray == present /\ rules.type = "array" /\ n3[field].kind # "array"
        n4 == IF notArray /\ rules.hasDefault
              THEN MapSet(n3, field, rules.default) ELSE n3
        e4 == IF notArray /\ ~rules.hasDefault
              THEN Append(e2, "Field '" \o field \o "' should be an array")
              ELSE e2
    IN  [data |-> n4, errors |-> e4]

RECURSIVE validateAndNormalize(_, _, _)
validateAndNormalize(data, schema, errors) ==
    IF schema = << >>
    THEN [ valid |-> errors = << >>, data |-> data, errors |-> errors,
           warnings |-> Len(errors) ]
    ELSE LET after == ValidateField(Head(schema), data, errors)
         IN  validateAndNormalize(after.data, Tail(schema), after.errors)

\* parseWithValidation; a failed parse returns neither data nor validation.
parseWithValidation(response, schemaType) ==
    LET parseResult == parseRobustJSON(response)
        validationResult ==
            validateAndNormalize(parseResult.data, createSchema(schemaType), << >>)
    IN  IF ~parseResult.success
        THEN [ op |-> "parseWithValidation", success |-> FALSE,
               error |-> "All JSON parsing strategies failed",
               method |-> parseResult.method,
               hasData |-> FALSE, data |-> EmptyObject,
               valid |-> FALSE, errors |-> << >> ]
        ELSE [ op |-> "parseWithValidation",
               success |-> validationResult.valid \/ validationResult.warnings < 3,
               error |-> Null,
               method |-> parseResult.method,
               hasData |-> TRUE, data |-> validationResult.data,
               valid |-> validationResult.valid, errors |-> validationResult.errors ]

InitNormalizer ==
    /\ SessionIdle
    /\ FnIdle
    /\ OrchIdle
    /\ AnalysisIdle
    /\ AgentIdle
    /\ ExtraIdle
    /\ normPc = "input"
    /\ normInput \in [text : ModelTexts, schemaType : SchemaTypes]
    /\ normResult = [op |-> "none"]

Normalize ==
    /\ normPc = "input"
    /\ normResult' = parseWithValidation(normInput.text, normInput.schemaType)
    /\ normPc' = "done"
    /\ UNCHANGED <<normInput, sessionVars, fnVars, orchVars, analysisVars, agentVars, extraVars>>

NextNormalizer == Normalize

SpecNormalizer == InitNormalizer /\ [][NextNormalizer]_vars

\* C18: for a response that no strategy can parse, parseWithValidation
\* returns success = false together with a data object that holds every
\* required field of the schema with its default.
C18_UnparseableGivesDefaults ==
    normPc = "done" /\ ~parseRobustJSON(normInput.text).success =>
        LET schema == createSchema(normInput.schemaType)
        IN  /\ ~normResult.success
            /\ normResult.hasData
            /\ \A i \in 1..Len(schema) :
                  schema[i].required =>
                      /\ schema[i].field \in DOMAIN normResult.data
                      /\ normResult.data[schema[i].field] = schema[i].default

\* An object that has every required field of the schema, and every field of
\* the schema it has with the kind and the range the schema asks for.
ConformsTo(data, schemaType) ==
    LET schema == createSchema(schemaType)
    IN  \A i \in 1..Len(schema) :
           /\ schema[i].required => schema[i].field \in DOMAIN data
           /\ schema[i].field \in DOMAIN data =>
                 /\ data[schema[i].field].kind = schema[i].type
                 /\ schema[i].ranged =>
                       /\ data[schema[i].field].num >= schema[i].min
                       /\ data[schema[i].field].num <= schema[i].max

\* C19: for a response that is clean JSON conforming to the schema,
\* parseWithValidation returns success = true, no validation error, and the
\* parsed object unchanged.
C19_CleanInputUnchanged ==
    normPc = "done" /\ JSONparse(normInput.text).ok
                    /\ ConformsTo(JSONparse(normInput.text).data, normInput.schemaType) =>
        /\ normResult.success
        /\ normResult.valid
        /\ normResult.errors = << >>
        /\ normResult.data = JSONparse(normInput.text).data

\* C20: a response that is one object wrapped in one layer of fence markers,
\* with no tag, the json tag or another tag, is parsed by the cleaning
\* strategy (method 'cleaned') and gives what the unwrapped object gives.
C20_FencedParsedByCleaning ==
    normPc = "done" =>
        \A tag \in FenceTags, body \in PlainTexts :
            normInput.text = Fence(tag, body) =>
                /\ normResult.hasData
                /\ normResult.method = "cleaned"
                /\ normResult.data = parseWithValidation(body, normInput.schemaType).data

----------------------------------------------------------------------------
(* Start failures                                                           *)

\* C28: when startVoiceInterview fails, the registered sessions are as they
\* were before the call: no session stays stored in status waiting with zero
\* questions.
C28_FailedStartStoresNothing ==
    [][ IsStep("startVoiceInterview") /\ ~lastResult'.ok => session' = session ]_vars

RECURSIVE SumOfScores(_)
SumOfScores(responseAnalyses) ==
    IF responseAnalyses = << >> THEN 0
    ELSE Head(responseAnalyses).analysis.score + SumOfScores(Tail(responseAnalyses))

\* C24: for a non-empty list of per-response analyses with scores in
\* [0,100], the overallScore of a fallback overall analysis is the rounded
\* arithmetic mean of the scores, a score of 0 counting as 0.
C24_FallbackScoreIsMean ==
    /\ analysisLast.op = "generateComprehensiveAnalytics"
    /\ analysisLast.overallAnalysis.source \in {"agent fallback", "orchestrator fallback"}
    /\ Len(analysisLast.responseAnalyses) > 0
    => analysisLast.overallAnalysis.overallScore =
          RoundedAverage(SumOfScores(analysisLast.responseAnalyses),
                         Len(analysisLast.responseAnalyses))

----------------------------------------------------------------------------
(* Configs with missing fields                                              *)

\* What a missing field reads as: undefined for style and experienceLevel,
\* the characters of "undefined" for a topic put into a template literal, NaN
\* for a duration put into arithmetic.
UndefinedTopic == <<"u", "n", "d", "e", "f", "i", "n", "e", "d">>

RequestConfigs ==
    [ topic : {<<"J", "S">>, UndefinedTopic},
      style : {"technical", Undefined},
      experienceLevel : {"junior", Undefined},
      duration : {30, NaN} ]

startVoiceInterviewAnyConfig ==
    /\ session = NoSession
    /\ \E config \in RequestConfigs, roomCreated \in BOOLEAN,
          question \in QuestionTexts \cup {Throw} :
          startVoiceInterviewCall(config, roomCreated, question)
    /\ pauseSnap' = NoSession
    /\ UNCHANGED <<now, fnVars, restVars>>

generateQuestionAnyConfig ==
    /\ orchLast.op = "none"
    /\ \E config \in RequestConfigs,
          topicOutcome \in TopicAnalysisResults \cup {AgentThrew},
          generationOutcome \in GenerationResults \cup {AgentThrew} :
          generateQuestionCall(config, 1, topicOutcome, generationOutcome)
    /\ UNCHANGED <<sessionVars, fnVars, moreVars>>

NextConfig == startVoiceInterviewAnyConfig \/ generateQuestionAnyConfig

SpecConfig == Init /\ [][NextConfig]_vars

ConfigComplete(config) ==
    /\ config.topic # UndefinedTopic
    /\ config.style # Undefined
    /\ config.experienceLevel # Undefined
    /\ config.duration # NaN

\* C21: for a config that misses topic, style, experienceLevel or duration,
\* startVoiceInterview stores no session and generateQuestion invokes no
\* agent (issues no model call).
C21_IncompleteConfigRejected ==
    /\ session # NoSession => ConfigComplete(session.config)
    /\ orchLast.op = "generateQuestion" /\ orchLast.topicInvoked =>
          ConfigComplete(orchLast.config)

----------------------------------------------------------------------------
(* AIInterviewSimulator: questions, the one-question-ahead cache            *)

MaxGenerated == 3      \* questions received or requested by getNextQuestion
MaxSubmitted == 3      \* responses accepted by submitResponse

SimulatorConfigs ==
    { InterviewConfig(15, "junior", "technical"),
      InterviewConfig(24, "junior", "technical") }

\* A question text, named by where it came from and by the questionNumber
\* the request for it carried.
Question(source, questionNumber) ==
    [source |-> source, questionNumber |-> questionNumber]

NoQuestion == Question(Null, 0)

NewSimulator(config) ==
    [ config |-> config,
      currentQuestionIndex |-> 0,
      responses |-> << >>,
      generatedQuestions |-> << >>,
      isUsingLLM |-> TRUE,
      nextQuestionCache |-> NoQuestion,
      isInterviewEnded |-> FALSE,
      timeLimitExceeded |-> FALSE ]   \* Date.now() - startTime > maxDuration + timeBuffer

FallbackLength(style) == IF style = "salary-negotiation" THEN 10 ELSE 15

getFallbackQuestion(sim) ==
    IF sim.currentQuestionIndex >= FallbackLength(sim.config.style)
    THEN NoQuestion
    ELSE Question("fallback", sim.currentQuestionIndex + 1)

RemoveAt(seq, i) == SubSeq(seq, 1, i - 1) \o SubSeq(seq, i + 1, Len(seq))

\* What a method call that has returned leaves in simLast.
Returned(op, returned, fromCache, prefetchStarted, after) ==
    [ op |-> op, returned |-> returned, fromCache |-> fromCache,
      prefetchStarted |-> prefetchStarted, after |-> after ]

\* preGenerateNextQuestion, called on sim: the requests in flight after it.
preGenerateNextQuestion(sim, prefetches) ==
    IF /\ sim.currentQuestionIndex + 1 < calculateMaxQuestions(sim.config)
       /\ sim.isUsingLLM
       /\ ~sim.isInterviewEnded
    THEN Append(prefetches, sim.currentQuestionIndex + 2)
    ELSE prefetches

\* getNextQuestion up to its return or to its await of APIService.generateQuestion.
getNextQuestion ==
    /\ simulator # [config |-> "none"]
    /\ Len(simulator.generatedQuestions) + Len(simCalls) < MaxGenerated
    /\ IF \/ simulator.isInterviewEnded
          \/ simulator.currentQuestionIndex >= calculateMaxQuestions(simulator.config)
          \/ simulator.timeLimitExceeded
       THEN /\ simLast' = Returned("getNextQuestion", NoQuestion, FALSE, FALSE, simulator)
            /\ UNCHANGED <<simulator, simCalls>>
       ELSE IF simulator.nextQuestionCache # NoQuestion
       THEN /\ simulator' = [simulator EXCEPT
                                !.nextQuestionCache = NoQuestion,
                                !.generatedQuestions = Append(@, simulator.nextQuestionCache)]
            /\ simLast' = Returned("getNextQuestion", simulator.nextQuestionCache,
                                   TRUE, FALSE, simulator')
            /\ UNCHANGED simCalls
       ELSE IF simulator.isUsingLLM
       THEN /\ simCalls' = Append(simCalls, simulator.currentQuestionIndex + 1)
            /\ simLast' = [op |-> "getNextQuestion awaits"]
            /\ UNCHANGED simulator
       ELSE /\ simLast' = Returned("getNextQuestion", getFallbackQuestion(simulator),
                                   FALSE, FALSE, simulator)
            /\ UNCHANGED <<simulator, simCalls>>
    /\ UNCHANGED <<simPrefetches, serverVars>>

\* APIService.generateQuestion resolves for a waiting getNextQuestion.
getNextQuestionResolved ==
    /\ \E i \in 1..Len(simCalls) :
          LET question == Question("llm", simCalls[i])
              sim == [simulator EXCEPT !.generatedQuestions = Append(@, question)]
          IN  /\ simulator' = sim
              /\ simCalls' = RemoveAt(simCalls, i)
              /\ simPrefetches' = preGenerateNextQuestion(sim, simPrefetches)
              /\ simLast' = Returned("getNextQuestion", question, FALSE,
                                     simPrefetches' # simPrefetches, sim)
    /\ UNCHANGED <<serverVars>>

\* APIService.generateQuestion rejects for a waiting getNextQuestion.
getNextQuestionRejected ==
    /\ \E i \in 1..Len(simCalls) :
          LET sim == [simulator EXCEPT !.isUsingLLM = FALSE]
          IN  /\ simulator' = sim
              /\ simCalls' = RemoveAt(simCalls, i)
              /\ simLast' = Returned("getNextQuestion", getFallbackQuestion(sim),
                                     FALSE, FALSE, sim)
    /\ UNCHANGED <<simPrefetches, serverVars>>

\* The then-callback of a request made by preGenerateNextQuestion.
prefetchResolved ==
    /\ \E i \in 1..Len(simPrefetches) :
          /\ simulator' = IF simulator.isInterviewEnded
                          THEN simulator
                          ELSE [simulator EXCEPT
                                   !.nextQuestionCache = Question("llm", simPrefetches[i])]
          /\ simPrefetches' = RemoveAt(simPrefetches, i)
    /\ simLast' = [op |-> "prefetch resolved"]
    /\ UNCHANGED <<simCalls, serverVars>>

\* The catch-callback of a request made by preGenerateNextQuestion.
prefetchRejected ==
    /\ \E i \in 1..Len(simPrefetches) : simPrefetches' = RemoveAt(simPrefetches, i)
    /\ simLast' = [op |-> "prefetch rejected"]
    /\ UNCHANGED <<simulator, simCalls, serverVars>>

submitResponse ==
    /\ simulator # [config |-> "none"]
    /\ simulator.currentQuestionIndex < MaxSubmitted
    /\ LET index == simulator.currentQuestionIndex
           currentQuestion ==
               IF index + 1 <= Len(simulator.generatedQuestions)
               THEN simulator.generatedQuestions[index + 1]
               ELSE getFallbackQuestion(simulator)
       IN  simulator' = IF currentQuestion = NoQuestion
                        THEN simulator
                        ELSE [simulator EXCEPT
                                 !.responses = Append(@, currentQuestion),
                                 !.currentQuestionIndex = @ + 1]
    /\ simLast' = [op |-> "submitResponse"]
    /\ UNCHANGED <<simCalls, simPrefetches, serverVars>>

endInterviewEarly ==
    /\ simulator # [config |-> "none"]
    /\ simulator' = [simulator EXCEPT !.isInterviewEnded = TRUE,
                                      !.nextQuestionCache = NoQuestion]
    /\ simLast' = [op |-> "endInterviewEarly"]
    /\ UNCHANGED <<simCalls, simPrefetches, serverVars>>

forceFallbackMode ==
    /\ simulator # [config |-> "none"]
    /\ simulator' = [simulator EXCEPT !.isUsingLLM = FALSE,
                                      !.nextQuestionCache = NoQuestion]
    /\ simLast' = [op |-> "forceFallbackMode"]
    /\ UNCHANGED <<simCalls, simPrefetches, serverVars>>

\* The clock passes config.duration plus the two-minute buffer.
TimeLimitPasses ==
    /\ simulator # [config |-> "none"]
    /\ ~simulator.timeLimitExceeded
    /\ simulator' = [simulator EXCEPT !.timeLimitExceeded = TRUE]
    /\ simLast' = [op |-> "clock"]
    /\ UNCHANGED <<simCalls, simPrefetches, serverVars>>

InitSimulator ==
    /\ SessionIdle
    /\ FnIdle
    /\ OrchIdle
    /\ AnalysisIdle
    /\ AgentIdle
    /\ NormIdle
    /\ pausedTime = 0
    /\ OverlapIdle
    /\ RaceIdle
    /\ simulator \in {NewSimulator(config) : config \in SimulatorConfigs}
    /\ simCalls = << >>
    /\ simPrefetches = << >>
    /\ simLast = [op |-> "none"]

NextSimulator ==
    \/ getNextQuestion
    \/ getNextQuestionResolved
    \/ getNextQuestionRejected
    \/ prefetchResolved
    \/ prefetchRejected
    \/ submitResponse
    \/ endInterviewEarly
    \/ forceFallbackMode
    \/ TimeLimitPasses

SpecSimulator == InitSimulator /\ [][NextSimulator]_vars

\* C22: whenever getNextQuestion hands out a question while the interview is
\* not ended, LLM mode is on and currentQuestionIndex + 1 < maxQuestions, a
\* pre-fetch of the following question has been started, also when the
\* question came from the one-question-ahead cache.
C22_HandOutStartsPrefetch ==
    /\ simLast.op = "getNextQuestion"
    /\ simLast.returned # NoQuestion
    /\ ~simLast.after.isInterviewEnded
    /\ simLast.after.isUsingLLM
    /\ simLast.after.currentQuestionIndex + 1 < calculateMaxQuestions(simLast.after.config)
    => simLast.prefetchStarted

\* C25: a question served from the one-question-ahead cache as question
\* number k (k = currentQuestionIndex + 1 when it is served) was pre-fetched
\* with questionNumber k.
C25_CachedQuestionHasItsNumber ==
    /\ simLast.op = "getNextQuestion"
    /\ simLast.fromCache
    => simLast.returned.questionNumber = simLast.after.currentQuestionIndex + 1

\* C30: once the interview has been ended early, nextQuestionCache is empty
\* and every getNextQuestion that returns, returns null.
C30_EndedHandsOutNothing ==
    simulator.isInterviewEnded =>
        /\ simulator.nextQuestionCache = NoQuestion
        /\ simLast.op = "getNextQuestion" => simLast.returned = NoQuestion

----------------------------------------------------------------------------
(* pauseInterview and resumeInterview against the clock                     *)

MaxPauseNow == 3       \* minutes the clock runs while pauses are measured

\* A minute passes; pausedTime counts it when the session is paused meanwhile.
MinutePasses ==
    /\ now < MaxPauseNow
    /\ now' = now + 1
    /\ pausedTime' = IF session.status = "paused" THEN pausedTime + 1 ELSE pausedTime
    /\ UNCHANGED <<session, lastResult, pauseSnap, fnVars, orchVars, analysisVars,
                   agentVars, normVars, simVars, overlapVars, raceVars>>

NextPause ==
    \/ startVoiceInterview
    \/ pauseInterview
    \/ resumeInterview
    \/ MinutePasses

SpecPause == Init /\ [][NextPause]_vars

\* C23: after every resumeInterview the session's pauseDuration is the total
\* time its status has been paused, also when pauseInterview was called
\* again while the session was already paused.
C23_PauseDurationIsPausedTime ==
    [][ IsStep("resumeInterview") /\ lastResult'.ok
            => session'.pauseDuration = pausedTime' ]_vars

----------------------------------------------------------------------------
(* VoiceInterviewService: requests that overlap at their awaits             *)

MaxOverlap == 2        \* requests of one session waiting at an await at a time
MaxOverlapResponses == 3   \* responses a session takes while requests overlap

OverlapConfigs == { InterviewConfig(30, "junior", "technical") }
OverlapQuestionTexts == {"qA"}

\* startVoiceInterview up to its await of generateNextQuestion, which has
\* reached its own await of llm.generateQuestion.
startVoiceInterviewBegins ==
    /\ session = NoSession
    /\ \E config \in OverlapConfigs, roomCreated \in BOOLEAN :
          IF roomCreated
          THEN /\ session' = NewSession(config, now)
               /\ generating' = generating + 1
               /\ lastResult' = Result("startVoiceInterview awaits")
          ELSE /\ lastResult' = Thrown("startVoiceInterview", "Failed to start voice interview")
               /\ UNCHANGED <<session, generating>>
    /\ UNCHANGED <<now, pauseSnap, analyzing, fnVars, orchVars, analysisVars, agentVars,
                   normVars, simVars, pausedTime, raceVars>>

\* processVoiceResponse up to its await of llm.analyzeResponse.
processVoiceResponseBegins ==
    /\ session # NoSession
    /\ analyzing + generating < MaxOverlap
    /\ Len(session.responses) < MaxOverlapResponses
    /\ \E transcription \in Transcriptions :
          session' = StoreResponse(session, transcription, now)
    /\ analyzing' = analyzing + 1
    /\ lastResult' = Result("processVoiceResponse awaits")
    /\ UNCHANGED <<now, pauseSnap, generating, fnVars, orchVars, analysisVars, agentVars,
                   normVars, simVars, pausedTime, raceVars>>

\* llm.analyzeResponse settles (a rejection is caught and logged): the call
\* goes on to shouldContinueInterview and either reaches the await in
\* generateNextQuestion or completes the session and returns.
responseAnalyzed ==
    /\ analyzing > 0
    /\ analyzing' = analyzing - 1
    /\ IF shouldContinueInterview(session, now)
       THEN /\ generating' = generating + 1
            /\ lastResult' = Result("generateNextQuestion awaits")
            /\ UNCHANGED session
       ELSE /\ session' = [session EXCEPT !.status = "completed"]
            /\ lastResult' = [Result("processVoiceResponse") EXCEPT
                                 !.isComplete = TRUE,
                                 !.current = session.currentQuestionIndex,
                                 !.total = calculateTotalQuestions(session.config.duration),
                                 !.status = "completed"]
            /\ UNCHANGED generating
    /\ UNCHANGED <<now, pauseSnap, fnVars, orchVars, analysisVars, agentVars,
                   normVars, simVars, pausedTime, raceVars>>

\* llm.generateQuestion resolves for a waiting generateNextQuestion, whose
\* caller then returns.
questionGenerated ==
    /\ generating > 0
    /\ generating' = generating - 1
    /\ \E question \in OverlapQuestionTexts :
          /\ session' = StoreQuestion(session, question)
          /\ lastResult' = [Result("generateNextQuestion") EXCEPT
                               !.nextQuestion = question,
                               !.current = session'.currentQuestionIndex,
                               !.total = calculateTotalQuestions(session.config.duration),
                               !.status = session.status]
    /\ UNCHANGED <<now, pauseSnap, analyzing, fnVars, orchVars, analysisVars, agentVars,
                   normVars, simVars, pausedTime, raceVars>>

\* llm.generateQuestion rejects for a waiting generateNextQuestion.
questionRejected ==
    /\ generating > 0
    /\ generating' = generating - 1
    /\ lastResult' = Thrown("generateNextQuestion", "Failed to generate question")
    /\ UNCHANGED <<session, now, pauseSnap, analyzing, fnVars, orchVars, analysisVars,
                   agentVars, normVars, simVars, pausedTime, raceVars>>

NextOverlap ==
    \/ startVoiceInterviewBegins
    \/ processVoiceResponseBegins
    \/ responseAnalyzed
    \/ questionGenerated
    \/ questionRejected
    \/ pauseInterview
    \/ resumeInterview
    \/ endInterview
    \/ Tick

SpecOverlap == Init /\ [][NextOverlap]_vars

AnsweredQuestions(s) == {s.responses[i].questionId : i \in 1..Len(s.responses)}

\* C26: however processVoiceResponse calls on a session overlap,
\* currentQuestionIndex stays within the session's question limit, and the
\* questions generated after the first one are at most as many as the
\* questions that have an answer.
C26_IndexWithinLimit ==
    session # NoSession =>
        /\ session.currentQuestionIndex <= calculateTotalQuestions(session.config.duration)
        /\ Len(session.questions) - 1 <= Cardinality(AnsweredQuestions(session))

\* C29: in every state of a stored session, questions.length equals
\* currentQuestionIndex, whatever operations ran and however they overlapped.
C29_QuestionsMatchIndex ==
    session # NoSession => Len(session.questions) = session.currentQuestionIndex

\* Two requests are waiting at llm.generateQuestion after a question was stored.
C29_Witness ==
    /\ session # NoSession
    /\ session.currentQuestionIndex >= 2
    /\ generating = 2

----------------------------------------------------------------------------
(* AgenticOrchestrator: generateQuestion calls that overlap                 *)

MaxRaceCalls == 2      \* generateQuestion calls made on one orchestrator

\* The topicAnalysis of a call that still waits for it.
NoAnalysis == [success |-> FALSE, analysis |-> "none"]

\* generateQuestion up to its first await: getOrCreateTopicAnalysis returns
\* the cached value or reaches topicAnalysisAgent.execute.  during is the set
\* of earlier calls with the same key that wait for their TopicAnalysis.
generateQuestionBegins ==
    /\ Len(orchCalls) < MaxRaceCalls
    /\ \E config \in SharedKeyConfigs, questionNumber \in 1..MaxSharedNumber :
          LET sessionId == getSessionId(config)
              cached == TopicAnalysisKey(sessionId) \in DOMAIN sessionMemory
              during == { i \in 1..Len(orchCalls) :
                            /\ orchCalls[i].pc = "topicAnalysis"
                            /\ orchCalls[i].sessionId = sessionId }
          IN  /\ orchCalls' = Append(orchCalls,
                    [ pc |-> IF cached THEN "questionGeneration" ELSE "topicAnalysis",
                      config |-> config,
                      sessionId |-> sessionId,
                      questionNumber |-> questionNumber,
                      invoked |-> ~cached,
                      during |-> during,
                      topicAnalysis |-> IF cached
                                        THEN sessionMemory[TopicAnalysisKey(sessionId)]
                                        ELSE NoAnalysis,
                      returned |-> Null ])
              /\ topicInvocations' = IF cached THEN topicInvocations
                                     ELSE topicInvocations + 1
    /\ UNCHANGED <<sessionMemory, orchStats, orchLast, sessionVars, fnVars, analysisVars,
                   agentVars, normVars, simVars, pausedTime, overlapVars>>

\* topicAnalysisAgent.execute resolves: the result is cached and the call
\* reaches questionGenerationAgent.execute.
topicAnalysisResolved ==
    /\ \E i \in 1..Len(orchCalls), analysisResult \in TopicAnalysisResults :
          /\ orchCalls[i].pc = "topicAnalysis"
          /\ sessionMemory' = MapSet(sessionMemory,
                                     TopicAnalysisKey(orchCalls[i].sessionId), analysisResult)
          /\ orchCalls' = [orchCalls EXCEPT ![i].pc = "questionGeneration",
                                            ![i].topicAnalysis = analysisResult]
    /\ UNCHANGED <<topicInvocations, orchStats, orchLast, sessionVars, fnVars, analysisVars,
                   agentVars, normVars, simVars, pausedTime, overlapVars>>

\* topicAnalysisAgent.execute rejects: the catch of generateQuestion returns
\* the fallback question.
topicAnalysisRejected ==
    /\ \E i \in 1..Len(orchCalls) :
          /\ orchCalls[i].pc = "topicAnalysis"
          /\ orchCalls' = [orchCalls EXCEPT
                ![i].pc = "returned",
                ![i].topicAnalysis = AgentThrew,
                ![i].returned = generateFallbackQuestion(orchCalls[i].config,
                                                         orchCalls[i].questionNumber)]
    /\ UNCHANGED <<sessionMemory, topicInvocations, orchStats, orchLast, sessionVars, fnVars,
                   analysisVars, agentVars, normVars, simVars, pausedTime, overlapVars>>

\* questionGenerationAgent.execute settles: the question is stored in the
\* session memory and returned.
questionGenerationSettled ==
    /\ \E i \in 1..Len(orchCalls), generationOutcome \in GenerationResults \cup {AgentThrew} :
          LET call == orchCalls[i]
              finalQuestion == generateQuestionStreamlined(call.config, call.questionNumber,
                                                           generationOutcome)
          IN  /\ call.pc = "questionGeneration"
              /\ sessionMemory' = updateSessionMemory(sessionMemory, call.sessionId,
                                                      finalQuestion, call.questionNumber)
              /\ orchCalls' = [orchCalls EXCEPT ![i].pc = "returned",
                                                ![i].returned = finalQuestion.question]
    /\ UNCHANGED <<topicInvocations, orchStats, orchLast, sessionVars, fnVars, analysisVars,
                   agentVars, normVars, simVars, pausedTime, overlapVars>>

NextRace ==
    \/ generateQuestionBegins
    \/ topicAnalysisResolved
    \/ topicAnalysisRejected
    \/ questionGenerationSettled

SpecRace == Init /\ [][NextRace]_vars

\* C27: when a generateQuestion call starts while an earlier call with the same
\* uncached key waits for its TopicAnalysis, and every TopicAnalysis call
\* succeeds, the later call invokes no TopicAnalysis agent of its own and
\* both calls use the same TopicAnalysis.
C27_OverlappingCallsShareAnalysis ==
    \A i, j \in 1..Len(orchCalls) :
        /\ i \in orchCalls[j].during
        /\ orchCalls[i].pc \in {"questionGeneration", "returned"}
        /\ orchCalls[j].pc \in {"questionGeneration", "returned"}
        /\ orchCalls[i].topicAnalysis # AgentThrew
        /\ orchCalls[j].topicAnalysis # AgentThrew
        /\ orchCalls[i].topicAnalysis.success
        /\ orchCalls[j].topicAnalysis.success
        => /\ ~orchCalls[j].invoked
           /\ orchCalls[i].topicAnalysis = orchCalls[j].topicAnalysis

====
